---- MODULE Spec2Model ----
(***************************************************************************)
(* Model of the brute-force association-rule miner of                      *)
(* Mohammed_Sameer_Khan_Midterm_Project.py: generate_itemsets,             *)
(* brute_force_association and the part of the menu loop that feeds it.    *)
(*                                                                         *)
(* Item tokens are Python str values, modelled as sequences of one-letter  *)
(* strings, so that set(token) (the set of its characters) and set(tuple)  *)
(* (the set of its tokens) are different things, as they are in Python.    *)
(* Supports, confidences and thresholds are Python floats (IEEE-754        *)
(* binary64); they are modelled bit for bit, with round-to-nearest-even,   *)
(* on mantissas held as little-endian sequences of limbs.                  *)
(***************************************************************************)
EXTENDS Integers, Sequences, FiniteSets, TLC

(***************************************************************************)
(* Natural numbers of any size: little-endian limb sequences, no leading   *)
(* zero limb, <<>> is 0.                                                   *)
(***************************************************************************)
LimbBits == 14
LimbBase == 2^LimbBits

RECURSIVE BTrim(_)
BTrim(x) ==
    IF x = <<>> THEN x
    ELSE IF x[Len(x)] = 0 THEN BTrim(SubSeq(x, 1, Len(x) - 1)) ELSE x

RECURSIVE BMulC(_, _, _)
BMulC(x, k, c) ==
    IF x = <<>>
    THEN IF c = 0 THEN <<>> ELSE <<c % LimbBase>> \o BMulC(<<>>, k, c \div LimbBase)
    ELSE LET t == x[1] * k + c
         IN  <<t % LimbBase>> \o BMulC(Tail(x), k, t \div LimbBase)

BMulSmall(x, k) == BTrim(BMulC(x, k, 0))

RECURSIVE BAddSmall(_, _)
BAddSmall(x, c) ==
    IF c = 0 THEN x
    ELSE IF x = <<>> THEN <<c>>
    ELSE LET t == x[1] + c
         IN  <<t % LimbBase>> \o BAddSmall(Tail(x), t \div LimbBase)

RECURSIVE BSubB(_, _, _)
BSubB(x, y, borrow) ==
    IF x = <<>> THEN <<>>
    ELSE LET yi == IF y = <<>> THEN 0 ELSE y[1]
             yt == IF y = <<>> THEN y ELSE Tail(y)
             t  == x[1] - yi - borrow
         IN  IF t < 0 THEN <<t + LimbBase>> \o BSubB(Tail(x), yt, 1)
                      ELSE <<t>> \o BSubB(Tail(x), yt, 0)

BSub(x, y) == BTrim(BSubB(x, y, 0))

RECURSIVE BCmpAt(_, _, _)
BCmpAt(x, y, i) ==
    IF i = 0 THEN 0
    ELSE IF x[i] < y[i] THEN -1
    ELSE IF x[i] > y[i] THEN 1
    ELSE BCmpAt(x, y, i - 1)

BCmp(x, y) ==
    IF Len(x) < Len(y) THEN -1
    ELSE IF Len(x) > Len(y) THEN 1
    ELSE BCmpAt(x, y, Len(x))

BOdd(x) == x # <<>> /\ x[1] % 2 = 1

\* limb i of x, 0 outside the sequence
Limb(x, i) == IF i >= 1 /\ i <= Len(x) THEN x[i] ELSE 0

\* floor(x / 2^sh)
BShiftRight(x, sh) ==
    LET a == sh \div LimbBits
        b == sh % LimbBits
    IN  BTrim([i \in 1..(IF Len(x) > a THEN Len(x) - a ELSE 0) |->
                  (Limb(x, i + a) \div 2^b)
                  + (Limb(x, i + a + 1) % 2^b) * 2^(LimbBits - b)])

\* some bit among the sh lowest bits of x is set
BLowBits(x, sh) ==
    LET a == sh \div LimbBits
        b == sh % LimbBits
    IN  \/ \E i \in 1..a : Limb(x, i) # 0
        \/ Limb(x, a + 1) % 2^b # 0

\* x * 2^sh
BShiftLeft(x, sh) ==
    LET a == sh \div LimbBits
        b == sh % LimbBits
    IN  BTrim([j \in 1..(Len(x) + a + 1) |->
                  IF j <= a THEN 0
                  ELSE ((Limb(x, j - a) * 2^b) % LimbBase)
                       + (Limb(x, j - a - 1) \div 2^(LimbBits - b))])

RECURSIVE SmallBits(_)
SmallBits(n) == IF n = 0 THEN 0 ELSE 1 + SmallBits(n \div 2)

BitLen(x) == IF x = <<>> THEN 0 ELSE LimbBits * (Len(x) - 1) + SmallBits(x[Len(x)])

(***************************************************************************)
(* Python float / numpy float64.  A finite value is sign * m * 2^e with m  *)
(* of exactly Precision bits (or m = <<>> for zero).                       *)
(***************************************************************************)
Precision == 53

FZero == [k |-> "num", s |-> 1, m |-> <<>>, e |-> 0]
FNaN  == [k |-> "nan", s |-> 1, m |-> <<>>, e |-> 0]
FInf  == [k |-> "inf", s |-> 1, m |-> <<>>, e |-> 0]

FNum(s, m, e) == [k |-> "num", s |-> s, m |-> m, e |-> e]

\* Round sign * (M + sticky fraction) * 2^e to nearest, ties to even.
\* A caller that sets sticky passes at least Precision + 1 bits.
FRound(s, M, e, sticky) ==
    LET nb == BitLen(M)
    IN  IF nb = 0 THEN FZero
        ELSE IF nb <= Precision
        THEN FNum(s, BShiftLeft(M, Precision - nb), e - (Precision - nb))
        ELSE LET sh == nb - Precision
                 h  == BShiftRight(M, sh)
                 g  == BOdd(BShiftRight(M, sh - 1))
                 st == sticky \/ BLowBits(M, sh - 1)
                 up == g /\ (st \/ BOdd(h))
                 r  == IF up THEN BAddSmall(h, 1) ELSE h
             IN  IF BitLen(r) > Precision THEN FNum(s, BShiftRight(r, 1), e + sh + 1)
                                          ELSE FNum(s, r, e + sh)

RECURSIVE IntLimbs(_)
IntLimbs(nat) ==
    IF nat = 0 THEN <<>> ELSE <<nat % LimbBase>> \o IntLimbs(nat \div LimbBase)

\* int -> float (exact below 2^Precision)
FromInt(int) ==
    IF int < 0 THEN FRound(-1, IntLimbs(-int), 0, FALSE)
    ELSE FRound(1, IntLimbs(int), 0, FALSE)

\* One step of schoolbook long division in base LimbBase: rem < d, d has
\* its top bit set in its top limb.  Yields <<quotient limb, new remainder>>.
DivStep(rem, d) ==
    LET r    == IF rem = <<>> THEN rem ELSE <<0>> \o rem
        top  == Limb(r, Len(d) + 1) * LimbBase + Limb(r, Len(d))
        est  == top \div d[Len(d)]
        qhat == IF est > LimbBase - 1 THEN LimbBase - 1 ELSE est
        qd   == IF BCmp(BMulSmall(d, qhat), r) <= 0 THEN qhat
                ELSE IF BCmp(BMulSmall(d, qhat - 1), r) <= 0 THEN qhat - 1
                ELSE qhat - 2
    IN  <<qd, BSub(r, BMulSmall(d, qd))>>

\* x / y for finite x and finite non-zero y: the leading quotient bit, four
\* more quotient limbs, then one rounding
FDivNum(x, y) ==
    IF x.m = <<>> THEN FZero
    ELSE LET norm  == LimbBits * Len(y.m) - BitLen(y.m)
             d     == BShiftLeft(y.m, norm)
             r0    == BShiftLeft(x.m, norm)
             first == BCmp(r0, d) >= 0
             r1    == IF first THEN BSub(r0, d) ELSE r0
             c1    == DivStep(r1, d)
             c2    == DivStep(c1[2], d)
             c3    == DivStep(c2[2], d)
             c4    == DivStep(c3[2], d)
             q     == BTrim(<<c4[1], c3[1], c2[1], c1[1], IF first THEN 1 ELSE 0>>)
         IN  FRound(x.s * y.s, q, x.e - y.e - 4 * LimbBits, c4[2] # <<>>)

\* float * int, as in "x * 100" and "x * num_transactions"
FMulInt(x, n) ==
    IF x.k = "nan" THEN FNaN
    ELSE IF x.k = "inf" THEN (IF n = 0 THEN FNaN ELSE FInf)
    ELSE IF n = 0 \/ x.m = <<>> THEN FZero
    ELSE FRound(IF n < 0 THEN -x.s ELSE x.s, BMulSmall(x.m, IF n < 0 THEN -n ELSE n),
                x.e, FALSE)

\* three-way comparison of finite values
FCmpNum(x, y) ==
    IF x.m = <<>> /\ y.m = <<>> THEN 0
    ELSE IF x.m = <<>> THEN -y.s
    ELSE IF y.m = <<>> THEN x.s
    ELSE IF x.s # y.s THEN x.s
    ELSE IF x.e # y.e THEN (IF x.e > y.e THEN x.s ELSE -x.s)
    ELSE x.s * BCmp(x.m, y.m)

\* x >= y ; every comparison with NaN is False
FGeq(x, y) ==
    IF x.k = "nan" \/ y.k = "nan" THEN FALSE
    ELSE IF x.k = "inf" THEN TRUE
    ELSE IF y.k = "inf" THEN FALSE
    ELSE FCmpNum(x, y) >= 0

\* numpy true division of a column by an int (lines 24, 37): no exception,
\* 0/0 is NaN and c/0 is inf
NpDivInt(x, cnt) ==
    IF cnt = 0 THEN (IF x.m = <<>> THEN FNaN ELSE FInf)
    ELSE FDivNum(x, FromInt(cnt))

\* Python float / float (lines 22, 50): ZeroDivisionError on a zero divisor
FRaise == [k |-> "raise", s |-> 1, m |-> <<>>, e |-> 0]

PyDiv(x, y) ==
    IF x.k = "raise" \/ y.k = "raise" THEN FRaise
    ELSE IF y.k = "num" /\ y.m = <<>> THEN FRaise
    ELSE FDivNum(x, y)

\* Python float * int, an exception in the operand propagating
PyMulInt(x, cnt) == IF x.k = "raise" THEN FRaise ELSE FMulInt(x, cnt)

(***************************************************************************)
(* Item tokens, transactions and the values of the "Itemsets" column.      *)
(* A single frequent item is stored as the str itself, a larger itemset as *)
(* a tuple of str.                                                         *)
(***************************************************************************)
KeyStr(tok)   == [tuple |-> FALSE, items |-> <<tok>>]
KeyTuple(seq) == [tuple |-> TRUE, items |-> seq]

Range(seq) == {seq[i] : i \in 1..Len(seq)}

\* Python set(x): the characters of a str, the elements of a tuple or list
PySet(key) ==
    IF key.tuple THEN Range(key.items)
    ELSE {<<key.items[1][i]>> : i \in 1..Len(key.items[1])}

\* dict with insertion order: a sequence of <<key, value>>, keys distinct
DictHas(d, key) == \E i \in 1..Len(d) : d[i][1] = key

DictGet(d, key) == d[CHOOSE i \in 1..Len(d) : d[i][1] = key][2]

DictPut(d, key, val) ==
    IF DictHas(d, key)
    THEN [i \in 1..Len(d) |-> IF d[i][1] = key THEN <<key, val>> ELSE d[i]]
    ELSE Append(d, <<key, val>>)

\* the dict built by putting the first cnt pairs in turn
RECURSIVE DictOfFirst(_, _)
DictOfFirst(pairs, cnt) ==
    IF cnt = 0 THEN <<>>
    ELSE DictPut(DictOfFirst(pairs, cnt - 1), pairs[cnt][1], pairs[cnt][2])

DictOf(pairs) == DictOfFirst(pairs, Len(pairs))

(***************************************************************************)
(* generate_itemsets                                                       *)
(***************************************************************************)
\* subsets after the first cnt rounds of the loop of lines 8-10
RECURSIVE Subsets(_, _)
Subsets(items, cnt) ==
    IF cnt = 0 THEN << <<>> >>
    ELSE LET subsets == Subsets(items, cnt - 1)
         IN  subsets \o [i \in 1..Len(subsets) |-> Append(subsets[i], items[cnt])]

generate_itemsets(items) == Tail(Subsets(items, Len(items)))

(***************************************************************************)
(* brute_force_association, stage by stage                                 *)
(***************************************************************************)
\* line 18: the flattened list of item tokens
RECURSIVE ItemsOfFirst(_, _)
ItemsOfFirst(txs, cnt) ==
    IF cnt = 0 THEN <<>> ELSE ItemsOfFirst(txs, cnt - 1) \o txs[cnt]

ItemList(txs) == ItemsOfFirst(txs, Len(txs))

\* line 19: value_counts, by descending count, equal counts in order of first
\* appearance
ValueCounts(list) ==
    LET distinct == Range(list)
        where == [t \in distinct |-> {i \in 1..Len(list) : list[i] = t}]
        count == [t \in distinct |-> Cardinality(where[t])]
        first == [t \in distinct |-> CHOOSE i \in where[t] : \A j \in where[t] : i <= j]
        rank  == [t \in distinct |->
                     1 + Cardinality({u \in distinct :
                             \/ count[u] > count[t]
                             \/ count[u] = count[t] /\ first[u] < first[t]})]
    IN  [r \in 1..Cardinality(distinct) |->
            LET t == CHOOSE u \in distinct : rank[u] = r
            IN  [item |-> t, count |-> count[t]]]

\* the threshold of line 22 rewritten as min_support / (100 / num_transactions)
CountThresholdByQuotient(ms, num) == PyDiv(ms, PyDiv(FromInt(100), FromInt(num)))

\* line 22: (min_support / 100) * num_transactions
CountThreshold(ms, num) == PyMulInt(PyDiv(ms, FromInt(100)), num)

\* lines 24, 37: (Frequency / num_transactions) * 100
SupportOf(freq, num) == FMulInt(NpDivInt(FromInt(freq), num), 100)

\* lines 22-24: the frequent single items
FreqItems(txs, ms) ==
    LET num    == Len(txs)
        counts == ValueCounts(ItemList(txs))
        thr    == CountThreshold(ms, num)
        kept   == SelectSeq(counts, LAMBDA c : FGeq(FromInt(c.count), thr))
    IN  [i \in 1..Len(kept) |->
            [Itemsets  |-> KeyStr(kept[i].item),
             Frequency |-> kept[i].count,
             Support   |-> SupportOf(kept[i].count, num)]]

\* lines 27-28
ValidItemsets(freq) ==
    SelectSeq(generate_itemsets([i \in 1..Len(freq) |-> freq[i].Itemsets.items[1]]),
              LAMBDA iset : Len(iset) > 1)

\* lines 31-37: occurrences and support of every candidate of size >= 2
ItemsetDf(txs, freq) ==
    LET valid == ValidItemsets(freq)
        occ   == DictOf([i \in 1..Len(valid) |->
                    <<KeyTuple(valid[i]),
                      Cardinality({t \in 1..Len(txs) :
                                      Range(valid[i]) \subseteq Range(txs[t])})>>])
    IN  [i \in 1..Len(occ) |->
            [Itemsets  |-> occ[i][1],
             Frequency |-> occ[i][2],
             Support   |-> SupportOf(occ[i][2], Len(txs))]]

\* line 40 with the comparison turned round
CombineInverted(freq, idf, ms) ==
    freq \o SelectSeq(idf, LAMBDA r : FGeq(ms, r.Support))

\* line 40
Combine(freq, idf, ms) ==
    freq \o SelectSeq(idf, LAMBDA r : FGeq(r.Support, ms))

\* lines 22-40 as one function of the inputs
FrequentTable(txs, ms) ==
    LET freq == FreqItems(txs, ms)
    IN  Combine(freq, ItemsetDf(txs, freq), ms)

\* line 43
ItemSupportMap(table) ==
    DictOf([i \in 1..Len(table) |-> <<table[i].Itemsets, table[i].Support>>])

\* line 49
RuleCondition(antecedent, consequent) ==
    PySet(consequent) \subseteq PySet(antecedent) /\ antecedent # consequent

\* lines 47-49: the (antecedent, consequent) pairs the loops act on, in
\* iteration order
RulePairs(map) ==
    LET len == Len(map)
    IN  SelectSeq([p \in 1..(len * len) |->
                      <<map[((p - 1) \div len) + 1][1], map[((p - 1) % len) + 1][1]>>],
                  LAMBDA pr : RuleCondition(pr[1], pr[2]))

\* line 50
ConfValue(map, antecedent, consequent) ==
    PyMulInt(PyDiv(DictGet(map, antecedent), DictGet(map, consequent)), 100)

\* line 51: association_dict after the loops
AssociationDict(map) ==
    LET pairs == RulePairs(map)
    IN  DictOf([i \in 1..Len(pairs) |->
                   <<pairs[i], ConfValue(map, pairs[i][1], pairs[i][2])>>])

\* line 52 appending the consequent's support instead
SupportValuesOfConsequent(map) ==
    LET pairs == RulePairs(map)
    IN  [i \in 1..Len(pairs) |-> DictGet(map, pairs[i][2])]

\* line 52: support_values after the loops
SupportValues(map) ==
    LET pairs == RulePairs(map)
    IN  [i \in 1..Len(pairs) |-> DictGet(map, pairs[i][1])]

\* lines 54-56: the rule table; the Support column is assigned by position
RuleDf(map, mc) ==
    LET assoc == AssociationDict(map)
        vals  == SupportValues(map)
        rows  == [i \in 1..Len(assoc) |->
                     [Rules      |-> assoc[i][1],
                      Confidence |-> assoc[i][2],
                      Support    |-> vals[i]]]
    IN  SelectSeq(rows, LAMBDA r : FGeq(r.Confidence, mc))

\* line 50 raises on some pair
RulesRaise(map) ==
    LET assoc == AssociationDict(map)
    IN  \E i \in 1..Len(assoc) : assoc[i][2].k = "raise"

(***************************************************************************)
(* The inputs the model draws: item tokens "a", "b" and the two-letter     *)
(* token "ab"; a dataset is a few runs, each one row repeated, or the      *)
(* four-transaction example.                                               *)
(***************************************************************************)
MaxRuns == 2

TokA  == <<"a">>
TokB  == <<"b">>
TokAB == <<"a", "b">>
TokC  == <<"c">>

\* rows of the "Items" column after .str.split(", ")
RowChoices == {<<TokB>>, <<TokA, TokB>>, <<TokA, TokA>>, <<TokA, TokAB>>}

\* how many times a run repeats its row
RepeatChoices == {1, 21, 29}

RunChoices == RowChoices \X RepeatChoices

RECURSIVE ExpandFirst(_, _)
ExpandFirst(runs, cnt) ==
    IF cnt = 0 THEN <<>>
    ELSE ExpandFirst(runs, cnt - 1) \o [i \in 1..runs[cnt][2] |-> runs[cnt][1]]

Expand(runs) == ExpandFirst(runs, Len(runs))

\* runs of pairwise different rows
RunSeqs ==
    {runs \in UNION {[1..len -> RunChoices] : len \in 0..MaxRuns} :
        \A i, j \in 1..Len(runs) : i # j => runs[i][1] # runs[j][1]}

\* the four transactions [[A,B],[A,B,C],[A],[B,C]] of the worked example
WorkedExample == <<<<TokA, TokB>>, <<TokA, TokB, TokC>>, <<TokA>>, <<TokB, TokC>>>>

Datasets == {Expand(runs) : runs \in RunSeqs} \cup {WorkedExample}

\* float(input()) for the two thresholds
MinSupportChoices    == {FromInt(0), FromInt(50), FromInt(58), FromInt(101)}
MinConfidenceChoices == {FromInt(50), FromInt(100)}

(***************************************************************************)
(* State: the position in the menu loop / in brute_force_association and   *)
(* the function's arguments and tables.                                    *)
(***************************************************************************)
VARIABLES pc, transactions, min_support, min_confidence,
          freq_items, itemset_df, all_frequent_items, rule_df

vars == <<pc, transactions, min_support, min_confidence,
          freq_items, itemset_df, all_frequent_items, rule_df>>

num_transactions == Len(transactions)

Init ==
    /\ pc = "menu"
    /\ transactions = <<>>
    /\ min_support = FZero
    /\ min_confidence = FZero
    /\ freq_items = <<>>
    /\ itemset_df = <<>>
    /\ all_frequent_items = <<>>
    /\ rule_df = <<>>

\* lines 97-111: a company is chosen, the thresholds are read, the dataset
\* is loaded and brute_force_association is called
SelectCompany ==
    /\ pc = "menu"
    /\ \E data \in Datasets, ms \in MinSupportChoices, mc \in MinConfidenceChoices :
          /\ transactions' = data
          /\ min_support' = ms
          /\ min_confidence' = mc
    /\ pc' = "called"
    /\ UNCHANGED <<freq_items, itemset_df, all_frequent_items, rule_df>>

\* lines 98-100
Quit ==
    /\ pc = "menu"
    /\ pc' = "exit"
    /\ UNCHANGED <<transactions, min_support, min_confidence,
                   freq_items, itemset_df, all_frequent_items, rule_df>>

\* lines 15-24
CountSingleItems ==
    /\ pc = "called"
    /\ IF CountThreshold(min_support, num_transactions).k = "raise"
       THEN /\ pc' = "raised"
            /\ UNCHANGED freq_items
       ELSE /\ pc' = "counted"
            /\ freq_items' = FreqItems(transactions, min_support)
    /\ UNCHANGED <<transactions, min_support, min_confidence,
                   itemset_df, all_frequent_items, rule_df>>

\* lines 27-40
CountItemsets ==
    /\ pc = "counted"
    /\ itemset_df' = ItemsetDf(transactions, freq_items)
    /\ all_frequent_items' = Combine(freq_items, itemset_df', min_support)
    /\ pc' = "combined"
    /\ UNCHANGED <<transactions, min_support, min_confidence, freq_items, rule_df>>

\* lines 43-58: the rule table is returned, or line 50 raises
\* ZeroDivisionError and nothing is returned
GenerateRules ==
    /\ pc = "combined"
    /\ LET map == ItemSupportMap(all_frequent_items)
       IN  IF RulesRaise(map)
           THEN /\ pc' = "raised"
                /\ UNCHANGED rule_df
           ELSE /\ pc' = "returned"
                /\ rule_df' = RuleDf(map, min_confidence)
    /\ UNCHANGED <<transactions, min_support, min_confidence,
                   freq_items, itemset_df, all_frequent_items>>

\* lines 112-131: the tables are printed and the loop starts over; the
\* tables of this round are not read again
ShowResults ==
    /\ pc = "returned"
    /\ pc' = "menu"
    /\ transactions' = <<>>
    /\ min_support' = FZero
    /\ min_confidence' = FZero
    /\ freq_items' = <<>>
    /\ itemset_df' = <<>>
    /\ all_frequent_items' = <<>>
    /\ rule_df' = <<>>

Next ==
    \/ SelectCompany
    \/ Quit
    \/ CountSingleItems
    \/ CountItemsets
    \/ GenerateRules
    \/ ShowResults

Spec == Init /\ [][Next]_vars

(***************************************************************************)
(* Properties                                                              *)
(***************************************************************************)
\* an itemset of the table as a set of item tokens
TokenSet(key) == Range(key.items)

Returned == pc = "returned"

\* the Support the table holds for an itemset
TableSupport(key) ==
    all_frequent_items[CHOOSE i \in 1..Len(all_frequent_items) :
                           all_frequent_items[i].Itemsets = key].Support

\* number of transactions that contain every token of the set
Containing(tokens) ==
    Cardinality({t \in 1..num_transactions : tokens \subseteq Range(transactions[t])})

\* 100 * cnt / N >= min_support over the reals; both products are integers
\* below 2^Precision for the thresholds drawn here, so nothing is rounded
RealSupportAtLeast(cnt, ms) ==
    FGeq(FromInt(100 * cnt), FMulInt(ms, num_transactions))

ObservedTokens == Range(ItemList(transactions))

\* C1: every record of the returned frequent-itemset table has
\* Support = 100 * Frequency / N and Support >= min_support (N >= 1).
C1_RecordsMeetThreshold ==
    (Returned /\ num_transactions >= 1) =>
        \A i \in 1..Len(all_frequent_items) :
            /\ all_frequent_items[i].Support
                  = SupportOf(all_frequent_items[i].Frequency, num_transactions)
            /\ FGeq(all_frequent_items[i].Support, min_support)

\* C2: every returned rule has confidence >= min_confidence and a consequent
\* that is, as a set of item tokens, a non-empty strict subset of the antecedent.
C2_RulesWellFormed ==
    Returned =>
        \A i \in 1..Len(rule_df) :
            /\ FGeq(rule_df[i].Confidence, min_confidence)
            /\ TokenSet(rule_df[i].Rules[2]) # {}
            /\ TokenSet(rule_df[i].Rules[2]) \subseteq TokenSet(rule_df[i].Rules[1])
            /\ TokenSet(rule_df[i].Rules[2]) # TokenSet(rule_df[i].Rules[1])

\* C3: for every pair X, Y of the frequent-itemset table with Y a non-empty
\* proper subset of X (as sets of tokens) and 100 * support(X) / support(Y)
\* >= min_confidence, the rule table has exactly one row (X, Y).
C3_RulesComplete ==
    Returned =>
        \A i, j \in 1..Len(all_frequent_items) :
            LET X == all_frequent_items[i]
                Y == all_frequent_items[j]
            IN  ( /\ TokenSet(Y.Itemsets) \subseteq TokenSet(X.Itemsets)
                  /\ TokenSet(Y.Itemsets) # TokenSet(X.Itemsets)
                  /\ Y.Support # FZero
                  /\ FGeq(FMulInt(FDivNum(X.Support, Y.Support), 100), min_confidence) )
                => Cardinality({r \in 1..Len(rule_df) :
                                   rule_df[r].Rules = <<X.Itemsets, Y.Itemsets>>}) = 1

\* C4: every returned rule row has Confidence = 100 * support(antecedent) /
\* support(consequent), both read from the frequent-itemset table, and
\* Support = support(antecedent) of the same row.
C4_RuleColumnsAligned ==
    Returned =>
        \A i \in 1..Len(rule_df) :
            /\ rule_df[i].Confidence
                  = FMulInt(FDivNum(TableSupport(rule_df[i].Rules[1]),
                                    TableSupport(rule_df[i].Rules[2])), 100)
            /\ rule_df[i].Support = TableSupport(rule_df[i].Rules[1])

\* C4 witness: rules were returned, the confidence filter dropped a pair
\* that came before a returned one, and that returned row's antecedent and
\* consequent have different supports.
C4_Witness ==
    /\ Returned
    /\ Len(rule_df) >= 2
    /\ LET pairs == RulePairs(ItemSupportMap(all_frequent_items))
       IN  \E i \in 1..Len(rule_df) :
              /\ pairs[i] # rule_df[i].Rules
              /\ TableSupport(rule_df[i].Rules[1]) # TableSupport(rule_df[i].Rules[2])

\* C5: every record's Frequency is the number of transactions containing
\* every item of the itemset, and its Support never exceeds 100.
C5_FrequencyCountsTransactions ==
    Returned =>
        \A i \in 1..Len(all_frequent_items) :
            /\ all_frequent_items[i].Frequency
                  = Containing(TokenSet(all_frequent_items[i].Itemsets))
            /\ FGeq(FromInt(100), all_frequent_items[i].Support)

\* C6: every non-empty set of observed tokens whose support is >= min_support
\* (equality included) is in the returned frequent-itemset table exactly once.
C6_FrequentItemsetsComplete ==
    (Returned /\ num_transactions >= 1) =>
        \A tokens \in (SUBSET ObservedTokens) \ {{}} :
            RealSupportAtLeast(Containing(tokens), min_support)
            => Cardinality({i \in 1..Len(all_frequent_items) :
                               TokenSet(all_frequent_items[i].Itemsets) = tokens}) = 1

\* C7: no division by a zero-support consequent occurs: the call never raises
\* and every consequent the rule loops divide by has support > 0.
C7_NoZeroSupportConsequent ==
    /\ pc # "raised"
    /\ pc \in {"combined", "returned"} =>
          LET map   == ItemSupportMap(all_frequent_items)
              pairs == RulePairs(map)
          IN  \A i \in 1..Len(pairs) : DictGet(map, pairs[i][2]) # FZero

\* a threshold within [0, 100]
InRange(x) == FGeq(x, FromInt(0)) /\ FGeq(FromInt(100), x)

\* C8: with min_support or min_confidence outside [0, 100] the call stops
\* before any counting, enumeration or rule computation and returns no table.
C8_FailFastOnBadThreshold ==
    (pc # "menu" /\ pc # "exit" /\ ~(InRange(min_support) /\ InRange(min_confidence)))
        => pc = "called"

ItemsetsOf(table) == {TokenSet(table[i].Itemsets) : i \in 1..Len(table)}

\* C9: for the same transactions and thresholds s1 <= s2, the itemsets of the
\* table for s2 are among those of the table for s1, and are no more in number.
C9_MonotoneInMinSupport ==
    Returned =>
        \A s \in MinSupportChoices :
            (FGeq(s, min_support) /\ s # min_support) =>
                LET higher == FrequentTable(transactions, s)
                IN  /\ ItemsetsOf(higher) \subseteq ItemsetsOf(all_frequent_items)
                    /\ Len(higher) <= Len(all_frequent_items)

\* C9 witness: a returned table with an itemset of size 2 that a higher
\* threshold of the model removes while keeping a single item.
C9_Witness ==
    /\ Returned
    /\ \E i \in 1..Len(all_frequent_items) : all_frequent_items[i].Itemsets.tuple
    /\ \E s \in MinSupportChoices :
          LET higher == FrequentTable(transactions, s)
          IN  /\ FGeq(s, min_support)
              /\ higher # <<>>
              /\ Len(higher) < Len(all_frequent_items)

\* C10: with no transactions the call raises nothing, divides no record by
\* zero (there is no record and no rule pair) and returns two empty tables.
C10_EmptyDataset ==
    (num_transactions = 0 /\ pc \notin {"menu", "exit", "called"}) =>
        /\ pc # "raised"
        /\ freq_items = <<>>
        /\ itemset_df = <<>>
        /\ all_frequent_items = <<>>
        /\ RulePairs(ItemSupportMap(all_frequent_items)) = <<>>
        /\ rule_df = <<>>

\* C10 witness: the call has returned for an empty transaction sequence.
C10_Witness ==
    /\ Returned
    /\ num_transactions = 0
    /\ all_frequent_items = <<>>
    /\ rule_df = <<>>

====
